---- MODULE Spec2Model ----
(***************************************************************************)
(* Model of src-tauri/src/main.rs of hourglass-time: the NotificationState *)
(* record (four independently locked fields), the tauri commands           *)
(* set_timer_dates, get_time_remaining, start_notifications and            *)
(* stop_notifications, the startup auto-start of main(), and the scheduler *)
(* task spawned by start_notifications.                                    *)
(*                                                                         *)
(* Every step of a command is one critical section of one std::sync::Mutex *)
(* (or the tokio::spawn call between two of them), so commands running on  *)
(* different runtime threads interleave at exactly these steps.            *)
(*                                                                         *)
(* Time is counted in hours: the tokio Instant clock read by the interval  *)
(* and the chrono Utc clock read by the remaining-time computations are    *)
(* one variable, now.                                                      *)
(***************************************************************************)
EXTENDS Integers, Sequences, FiniteSets, TLC

\* ---------------------------------------------------------------- bounds
NCallers == 2     \* commands the UI may have in progress at once
MaxCalls == 3     \* commands the UI invokes in one run
MaxPeriods == 2   \* periods the clock runs for
MaxDays == 2      \* whole days in the remaining times the computations are tried on

\* ------------------------------------------------------ program constants
Period == 6       \* interval(Duration::from_secs(6 * 60 * 60)), in hours

\* ------------------------------------------------------------ Option<T>
None == <<>>
Some(x) == <<x>>
IsSome(o) == o # None
Unwrap(o) == o[1]

\* -------------------------------------------------- processes and tasks
Startup == 0                       \* the async block spawned by main().setup
Callers == 1..NCallers             \* the UI's command invocations
Procs == {Startup} \cup Callers
\* Each start_notifications call spawns at most one task.
Tasks == 1..(MaxCalls + 1)

\* ------------------------------------------------------ date strings
\* The strings a caller may pass to set_timer_dates.
ValidDates == {"1970-01-01T06:00:00Z", "1970-01-02T02:03:20+01:00"}
InvalidDates == {"not-a-date"}
DateStrings == ValidDates \cup InvalidDates

MsPerHour == 60 * 60 * 1000

\* chrono::DateTime::parse_from_rfc3339 on these strings, followed by
\* with_timezone(&Utc): milliseconds since the epoch, or an error.
ParseRfc3339(s) ==
    CASE s = "1970-01-01T06:00:00Z" ->
             [ok |-> TRUE, utc_ms |-> 6 * MsPerHour]
      [] s = "1970-01-02T02:03:20+01:00" ->
             [ok |-> TRUE, utc_ms |-> (24 + 2 - 1) * MsPerHour + 3 * 60000 + 20 * 1000]
      [] OTHER ->
             [ok |-> FALSE, utc_ms |-> 0]

\* ------------------------------------------------ calculate_time_components
\* i64 `/` and `%`: the quotient is rounded towards zero and the remainder has
\* the sign of the dividend.
Div(a, b) == IF a >= 0 THEN a \div b ELSE -((-a) \div b)
Rem(a, b) == a - b * Div(a, b)

\* As calculate_time_components, with the minutes not reduced to the hour.
calculate_time_components_whole_minutes(time_remaining_ms) ==
    LET total_seconds == Div(time_remaining_ms, 1000)
        days    == Div(total_seconds, 24 * 60 * 60)
        hours   == Div(Rem(total_seconds, 24 * 60 * 60), 60 * 60)
        minutes == Div(total_seconds, 60)
        seconds == Rem(total_seconds, 60)
    IN  <<days, hours, minutes, seconds>>

calculate_time_components(time_remaining_ms) ==
    LET total_seconds == Div(time_remaining_ms, 1000)
        days    == Div(total_seconds, 24 * 60 * 60)
        hours   == Div(Rem(total_seconds, 24 * 60 * 60), 60 * 60)
        minutes == Div(Rem(total_seconds, 60 * 60), 60)
        seconds == Rem(total_seconds, 60)
    IN  <<days, hours, minutes, seconds>>

\* (end_time.with_timezone(&Utc) - now).num_milliseconds(), the clock at hour `at`
MillisUntil(end_utc_ms, at) == end_utc_ms - at * MsPerHour

\* The four Mutex fields of NotificationState.
Mutexes == {"is_enabled", "handle", "start_date", "end_date"}

VARIABLES
    is_enabled,   \* NotificationState.is_enabled
    handle,       \* NotificationState.handle: None or Some(task)
    start_date,   \* NotificationState.start_date: None or Some(string)
    end_date,     \* NotificationState.end_date: None or Some(string)
    now,          \* the clock, in hours
    pc,           \* per process: the step it is at
    arg,          \* per process: the (start_date, end_date) arguments of set_timer_dates
    loc,          \* per process: the local start_date of get_time_remaining
    task,         \* per process: the JoinHandle held between tokio::spawn and the store
    called_at,    \* per process: the time its start_notifications call began
    calls,        \* commands the UI has invoked so far
    last_ret,     \* the Result the last returning command returned
    alone,        \* per process: no other command has overlapped its current one
    starts_in_row,\* start_notifications calls completed back to back, each alone
    next_task,    \* the next task tokio::spawn creates
    tpc,          \* per task: its position in the async block
    aborted,      \* per task: it runs and JoinHandle::abort has been called on it
    next_tick,    \* per task: the deadline of its interval's next tick
    tloc,         \* per task: the local start_date of the current wake
    origin,       \* per task, until its first wake: when the call that spawned it began
    woken,        \* per task: it runs and interval.tick() has completed at least once
    last_show,    \* the notification shown last: its body and what show() returned
    given_ms,     \* a computation on its own: the milliseconds handed to it
    computed,     \* a computation on its own: what it returned, or NoResult
    invoked,      \* the calls invoked so far, in order, where they are recorded
    owner         \* per mutex, where locking is a step of its own: who holds it

shared == <<is_enabled, handle, start_date, end_date>>
procv == <<pc, arg, loc, task, called_at, calls, last_ret, alone, starts_in_row>>
taskv == <<next_task, tpc, aborted, next_tick, tloc, origin, woken, last_show>>
pure == <<given_ms, computed>>
vars == <<shared, now, procv, taskv, pure, invoked, owner>>

NoArg == <<"", "">>
ExpiredRecord == [days |-> 0, hours |-> 0, minutes |-> 0, seconds |-> 0,
                  total_ms |-> 0, is_expired |-> TRUE]
\* Stands for "no TimeRemaining record": get_time_remaining never returns it.
NoValue == [days |-> 0, hours |-> 0, minutes |-> 0, seconds |-> 0,
            total_ms |-> 0, is_expired |-> FALSE]
NoRet == [res |-> "none", val |-> NoValue]
NoShow == [res |-> "none", msg |-> "none", args |-> <<>>]
NoResult == [fn |-> "none"]

\* NotificationState::default(), and main() before setup's async block runs.
Constructed ==
    /\ is_enabled = TRUE
    /\ handle = None
    /\ start_date = None
    /\ end_date = None
    /\ now = 0
    /\ pc = [p \in Procs |-> IF p = Startup THEN "boot" ELSE "idle"]
    /\ arg = [p \in Procs |-> NoArg]
    /\ loc = [p \in Procs |-> None]
    /\ task = [p \in Procs |-> 0]
    /\ called_at = [p \in Procs |-> 0]
    /\ calls = 0
    /\ last_ret = NoRet
    /\ alone = [p \in Procs |-> FALSE]
    /\ starts_in_row = 0
    /\ next_task = 1
    /\ tpc = [t \in Tasks |-> "unspawned"]
    /\ aborted = [t \in Tasks |-> FALSE]
    /\ next_tick = [t \in Tasks |-> 0]
    /\ tloc = [t \in Tasks |-> None]
    /\ origin = [t \in Tasks |-> 0]
    /\ woken = [t \in Tasks |-> FALSE]
    /\ last_show = NoShow
    /\ invoked = <<>>
    /\ owner = [m \in Mutexes |-> None]

Init ==
    /\ Constructed
    /\ given_ms = 1
    /\ computed = NoResult

\* ------------------------------------------------------------- helpers
Resting(p) == pc[p] \in {"idle", "boot", "done"}
\* Where a process goes when its command returns.
Home(p) == IF p = Startup THEN "done" ELSE "idle"
\* A process may begin a command: the startup block once, whenever its sleep
\* ends; a caller whenever it is at rest.
CanCall(p) == IF p = Startup THEN pc[p] = "boot" ELSE pc[p] = "idle" /\ calls < MaxCalls
Quiescent == \A p \in Procs : Resting(p)
OthersResting(p) == \A q \in Procs \ {p} : Resting(q)

StartSteps == {"start_check", "start_take", "start_spawn", "start_store"}

\* A command of p begins: it is alone if nothing else is running, and every
\* command it overlaps is no longer alone.
Begin(p, to) ==
    /\ pc' = [pc EXCEPT ![p] = to]
    /\ alone' = [q \in Procs |-> IF q = p THEN OthersResting(p) ELSE FALSE]

\* A command of p returns res (and, for get_time_remaining, the record val);
\* its arguments and locals are gone.
Return(p, res, val) ==
    /\ pc' = [pc EXCEPT ![p] = Home(p)]
    /\ last_ret' = [res |-> res, val |-> val]
    /\ arg' = [arg EXCEPT ![p] = NoArg]
    /\ loc' = [loc EXCEPT ![p] = None]
    /\ called_at' = [called_at EXCEPT ![p] = 0]
    /\ alone' = [alone EXCEPT ![p] = FALSE]
    /\ UNCHANGED calls

Min(a, b) == IF a < b THEN a ELSE b

Running(t) == tpc[t] \notin {"unspawned", "exited", "cancelled"}
\* Spawned and neither aborted nor exited.
Live(t) == Running(t) /\ ~aborted[t]
LiveTasks == {t \in Tasks : Live(t)}

\* tokio JoinHandle::abort on Some(t): a task that has not finished is marked
\* for cancellation; on a finished task, and on None, nothing happens.
AbortOf(h) ==
    IF IsSome(h) /\ Running(Unwrap(h))
    THEN [aborted EXCEPT ![Unwrap(h)] = TRUE]
    ELSE aborted

\* ------------------------------------------------- the commands are invoked
\* A call begins: the invoke handler runs the command on the async runtime.
Call(p, to, a) ==
    /\ CanCall(p)
    /\ Begin(p, to)
    /\ arg' = [arg EXCEPT ![p] = a]
    /\ calls' = IF p = Startup THEN calls ELSE calls + 1
    /\ called_at' = [called_at EXCEPT ![p] = IF to \in StartSteps THEN now ELSE 0]
    /\ starts_in_row' =
           IF to \in StartSteps /\ OthersResting(p) THEN starts_in_row ELSE 0
    /\ UNCHANGED <<shared, now, loc, task, last_ret, taskv>>
    /\ UNCHANGED <<pure, owner>>

\* main(): the async block of setup sleeps 500 ms and calls start_notifications.
AutoStart == Call(Startup, "start_check", NoArg) /\ UNCHANGED invoked

CallStart(p) ==
    p \in Callers /\ Call(p, "start_check", NoArg) /\ UNCHANGED invoked
CallStop(p) ==
    p \in Callers /\ Call(p, "stop_disable", NoArg) /\ UNCHANGED invoked
CallSetDates(p, s, e) ==
    p \in Callers /\ Call(p, "set_validate", <<s, e>>) /\ UNCHANGED invoked
CallGet(p) ==
    p \in Callers /\ Call(p, "get_start", NoArg) /\ UNCHANGED invoked

\* A start_notifications call of p returns: one more in the row if it ran alone.
RowAfterStart(p) == IF alone[p] THEN Min(starts_in_row + 1, 2) ELSE 0

\* ------------------------------------------------------ start_notifications
\* As StartCheck, with the early return left out: the call always goes on.
StartCheckWithoutReturn(p) ==
    /\ pc[p] = "start_check"
    /\ is_enabled' = TRUE
    /\ pc' = [pc EXCEPT ![p] = "start_take"]
    /\ UNCHANGED <<handle, start_date, end_date, arg, loc, called_at,
                   calls, last_ret, alone, starts_in_row>>
    /\ UNCHANGED <<now, task, taskv>>
    /\ UNCHANGED <<pure, invoked, owner>>

\* The first block: under the is_enabled lock, return if enabled, else enable.
StartCheck(p) ==
    /\ pc[p] = "start_check"
    /\ IF is_enabled
       THEN /\ Return(p, "ok", NoValue)
            /\ starts_in_row' = RowAfterStart(p)
            /\ UNCHANGED <<shared>>
       ELSE /\ is_enabled' = TRUE
            /\ pc' = [pc EXCEPT ![p] = "start_take"]
            /\ UNCHANGED <<handle, start_date, end_date, arg, loc, called_at,
                           calls, last_ret, alone, starts_in_row>>
    /\ UNCHANGED <<now, task, taskv>>
    /\ UNCHANGED <<pure, invoked, owner>>

\* The second block: under the handle lock, take the handle and abort its task.
StartTake(p) ==
    /\ pc[p] = "start_take"
    /\ handle' = None
    /\ aborted' = AbortOf(handle)
    /\ pc' = [pc EXCEPT ![p] = "start_spawn"]
    /\ UNCHANGED <<is_enabled, start_date, end_date, now, arg, loc, task,
                   called_at, calls, last_ret, alone, starts_in_row,
                   next_task, tpc, next_tick, tloc, origin, woken, last_show>>
    /\ UNCHANGED <<pure, invoked, owner>>

\* tokio::spawn of the async block; no lock is held.
StartSpawn(p) ==
    /\ pc[p] = "start_spawn"
    /\ tpc' = [tpc EXCEPT ![next_task] = "new"]
    /\ origin' = [origin EXCEPT ![next_task] = called_at[p]]
    /\ task' = [task EXCEPT ![p] = next_task]
    /\ next_task' = next_task + 1
    /\ pc' = [pc EXCEPT ![p] = "start_store"]
    /\ UNCHANGED <<shared, now, arg, loc, called_at, calls, last_ret, alone, starts_in_row,
                   aborted, next_tick, tloc, woken, last_show>>
    /\ UNCHANGED <<pure, invoked, owner>>

\* The last block: under the handle lock, *handle = Some(task). The handle that
\* was there is dropped, which detaches its task and does not abort it.
StartStore(p) ==
    /\ pc[p] = "start_store"
    /\ handle' = Some(task[p])
    /\ task' = [task EXCEPT ![p] = 0]
    /\ Return(p, "ok", NoValue)
    /\ starts_in_row' = RowAfterStart(p)
    /\ UNCHANGED <<is_enabled, start_date, end_date, now, taskv>>
    /\ UNCHANGED <<pure, invoked, owner>>

\* ------------------------------------------------------- stop_notifications
StopDisable(p) ==
    /\ pc[p] = "stop_disable"
    /\ is_enabled' = FALSE
    /\ pc' = [pc EXCEPT ![p] = "stop_take"]
    /\ UNCHANGED <<handle, start_date, end_date, now, arg, loc, task, called_at,
                   calls, last_ret, alone, starts_in_row, taskv>>
    /\ UNCHANGED <<pure, invoked, owner>>

\* As StopTake, with the abort left out: the handle is taken and dropped.
StopTakeWithoutAbort(p) ==
    /\ pc[p] = "stop_take"
    /\ handle' = None
    /\ Return(p, "ok", NoValue)
    /\ UNCHANGED <<is_enabled, start_date, end_date, now, task, starts_in_row, taskv>>
    /\ UNCHANGED <<pure, invoked, owner>>

StopTake(p) ==
    /\ pc[p] = "stop_take"
    /\ handle' = None
    /\ aborted' = AbortOf(handle)
    /\ Return(p, "ok", NoValue)
    /\ UNCHANGED <<is_enabled, start_date, end_date, now, task, starts_in_row,
                   next_task, tpc, next_tick, tloc, origin, woken, last_show>>
    /\ UNCHANGED <<pure, invoked, owner>>

\* ---------------------------------------------------------- set_timer_dates
\* As SetValidate, with the check of end_date left out.
SetValidateStartOnly(p) ==
    /\ pc[p] = "set_validate"
    /\ IF ~ParseRfc3339(arg[p][1]).ok
       THEN Return(p, "err_start_format", NoValue)
       ELSE /\ pc' = [pc EXCEPT ![p] = "set_start"]
            /\ UNCHANGED <<arg, loc, called_at, calls, last_ret, alone>>
    /\ UNCHANGED <<shared, now, task, starts_in_row, taskv>>
    /\ UNCHANGED <<pure, invoked, owner>>

\* As SetValidate, with the check of start_date left out.
SetValidateEndOnly(p) ==
    /\ pc[p] = "set_validate"
    /\ IF ~ParseRfc3339(arg[p][2]).ok
       THEN Return(p, "err_end_format", NoValue)
       ELSE /\ pc' = [pc EXCEPT ![p] = "set_start"]
            /\ UNCHANGED <<arg, loc, called_at, calls, last_ret, alone>>
    /\ UNCHANGED <<shared, now, task, starts_in_row, taskv>>
    /\ UNCHANGED <<pure, invoked, owner>>

\* Both arguments are parsed before any lock is taken; `?` returns the error.
SetValidate(p) ==
    /\ pc[p] = "set_validate"
    /\ IF ~ParseRfc3339(arg[p][1]).ok
       THEN Return(p, "err_start_format", NoValue)
       ELSE IF ~ParseRfc3339(arg[p][2]).ok
       THEN Return(p, "err_end_format", NoValue)
       ELSE /\ pc' = [pc EXCEPT ![p] = "set_start"]
            /\ UNCHANGED <<arg, loc, called_at, calls, last_ret, alone>>
    /\ UNCHANGED <<shared, now, task, starts_in_row, taskv>>
    /\ UNCHANGED <<pure, invoked, owner>>

SetWriteStart(p) ==
    /\ pc[p] = "set_start"
    /\ start_date' = Some(arg[p][1])
    /\ pc' = [pc EXCEPT ![p] = "set_end"]
    /\ UNCHANGED <<is_enabled, handle, end_date, now, arg, loc, task, called_at,
                   calls, last_ret, alone, starts_in_row, taskv>>
    /\ UNCHANGED <<pure, invoked, owner>>

SetWriteEnd(p) ==
    /\ pc[p] = "set_end"
    /\ end_date' = Some(arg[p][2])
    /\ Return(p, "ok", NoValue)
    /\ UNCHANGED <<is_enabled, handle, start_date, now, task, starts_in_row, taskv>>
    /\ UNCHANGED <<pure, invoked, owner>>

\* ------------------------------------------------------- get_time_remaining
\* As TimeRemainingOf, with the time run out only when it is below zero.
TimeRemainingOfBelowZero(sd, ed, at) ==
    IF IsSome(sd) /\ IsSome(ed)
    THEN LET end_time == ParseRfc3339(Unwrap(ed))
             time_remaining == MillisUntil(end_time.utc_ms, at)
             c == calculate_time_components(time_remaining)
         IN  IF ~end_time.ok THEN [res |-> "err_invalid_end", val |-> NoValue]
             ELSE IF time_remaining < 0 THEN [res |-> "ok", val |-> ExpiredRecord]
             ELSE [res |-> "ok",
                   val |-> [days |-> c[1], hours |-> c[2], minutes |-> c[3],
                            seconds |-> c[4], total_ms |-> time_remaining,
                            is_expired |-> FALSE]]
    ELSE [res |-> "err_not_set", val |-> NoValue]

\* What the body computes from the two cloned fields at time `at`.
TimeRemainingOf(sd, ed, at) ==
    IF IsSome(sd) /\ IsSome(ed)
    THEN LET end_time == ParseRfc3339(Unwrap(ed))
             time_remaining == MillisUntil(end_time.utc_ms, at)
             c == calculate_time_components(time_remaining)
         IN  IF ~end_time.ok THEN [res |-> "err_invalid_end", val |-> NoValue]
             ELSE IF time_remaining <= 0 THEN [res |-> "ok", val |-> ExpiredRecord]
             ELSE [res |-> "ok",
                   val |-> [days |-> c[1], hours |-> c[2], minutes |-> c[3],
                            seconds |-> c[4], total_ms |-> time_remaining,
                            is_expired |-> FALSE]]
    ELSE [res |-> "err_not_set", val |-> NoValue]

GetReadStart(p) ==
    /\ pc[p] = "get_start"
    /\ loc' = [loc EXCEPT ![p] = start_date]
    /\ pc' = [pc EXCEPT ![p] = "get_end"]
    /\ UNCHANGED <<shared, now, arg, task, called_at, calls, last_ret, alone,
                   starts_in_row, taskv>>
    /\ UNCHANGED <<pure, invoked, owner>>

GetReadEnd(p) ==
    /\ pc[p] = "get_end"
    /\ LET r == TimeRemainingOf(loc[p], end_date, now)
       IN  Return(p, r.res, r.val)
    /\ UNCHANGED <<shared, now, task, starts_in_row, taskv>>
    /\ UNCHANGED <<pure, invoked, owner>>

\* ------------------------------------------------------- the scheduler task
\* The notification body of one wake, from the two cloned fields at time `at`.
\* The body for a time that has not run out: the format string chosen and the
\* values it prints, in order.
RemainingBody(time_remaining) ==
    LET c == calculate_time_components(time_remaining)
    IN  IF c[1] > 0
        THEN [msg |-> "days_hours_minutes", args |-> <<c[1], c[2], c[3]>>]
        ELSE IF c[2] > 0
        THEN [msg |-> "hours_minutes", args |-> <<c[2], c[3]>>]
        ELSE [msg |-> "minutes", args |-> <<c[3]>>]

NotificationBody(sd, ed, at) ==
    IF IsSome(sd) /\ IsSome(ed)
    THEN LET end_time == ParseRfc3339(Unwrap(ed))
             time_remaining == MillisUntil(end_time.utc_ms, at)
         IN  IF ~end_time.ok THEN [msg |-> "check_progress", args |-> <<>>]
             ELSE IF time_remaining <= 0 THEN [msg |-> "times_up", args |-> <<>>]
             ELSE RemainingBody(time_remaining)
    ELSE [msg |-> "set_your_dates", args |-> <<>>]

\* The task is polled for the first time: interval() starts at Instant::now(),
\* and its first tick is due at once.
TaskInterval(t) ==
    /\ tpc[t] = "new"
    /\ ~aborted[t]
    /\ next_tick' = [next_tick EXCEPT ![t] = now]
    /\ tpc' = [tpc EXCEPT ![t] = "tick"]
    /\ UNCHANGED <<shared, now, procv, next_task, aborted, tloc, origin,
                   woken, last_show>>
    /\ UNCHANGED <<pure, invoked, owner>>

\* interval.tick().await completes: the deadline has passed; the next one is a
\* period after it.
TaskTick(t) ==
    /\ tpc[t] = "tick"
    /\ ~aborted[t]
    /\ now >= next_tick[t]
    /\ next_tick' = [next_tick EXCEPT ![t] = next_tick[t] + Period]
    /\ woken' = [woken EXCEPT ![t] = TRUE]
    /\ origin' = [origin EXCEPT ![t] = 0]
    /\ tpc' = [tpc EXCEPT ![t] = "check"]
    /\ UNCHANGED <<shared, now, procv, next_task, aborted, tloc, last_show>>
    /\ UNCHANGED <<pure, invoked, owner>>

\* A task ends: its future, with the interval in it, is dropped.
Ended(t, how) ==
    /\ tpc' = [tpc EXCEPT ![t] = how]
    /\ next_tick' = [next_tick EXCEPT ![t] = 0]
    /\ origin' = [origin EXCEPT ![t] = 0]
    /\ woken' = [woken EXCEPT ![t] = FALSE]
    /\ aborted' = [aborted EXCEPT ![t] = FALSE]

\* An aborted task is dropped where it yields: before its first poll or at
\* interval.tick().await, the only await of the block. (A wake ends with its
\* next tick still ahead, see Advance, so the task does yield there.)
TaskCancel(t) ==
    /\ tpc[t] \in {"new", "tick"}
    /\ aborted[t]
    /\ Ended(t, "cancelled")
    /\ UNCHANGED <<shared, now, procv, next_task, tloc, last_show>>
    /\ UNCHANGED <<pure, invoked, owner>>

\* As TaskCheck, with the break left out: the wake goes on when disabled.
TaskCheckWithoutBreak(t) ==
    /\ tpc[t] = "check"
    /\ tpc' = [tpc EXCEPT ![t] = "read_start"]
    /\ UNCHANGED <<next_tick, origin, woken, aborted>>
    /\ UNCHANGED <<shared, now, procv, next_task, tloc, last_show>>
    /\ UNCHANGED <<pure, invoked, owner>>

\* Under the is_enabled lock: break out of the loop if disabled.
TaskCheck(t) ==
    /\ tpc[t] = "check"
    /\ IF is_enabled
       THEN /\ tpc' = [tpc EXCEPT ![t] = "read_start"]
            /\ UNCHANGED <<next_tick, origin, woken, aborted>>
       ELSE Ended(t, "exited")
    /\ UNCHANGED <<shared, now, procv, next_task, tloc, last_show>>
    /\ UNCHANGED <<pure, invoked, owner>>

\* Under the start_date lock: guard.clone().
TaskReadStart(t) ==
    /\ tpc[t] = "read_start"
    /\ tloc' = [tloc EXCEPT ![t] = start_date]
    /\ tpc' = [tpc EXCEPT ![t] = "read_end"]
    /\ UNCHANGED <<shared, now, procv, next_task, aborted, next_tick, origin,
                   woken, last_show>>
    /\ UNCHANGED <<pure, invoked, owner>>

\* As TaskShow, with a failed show() ending the task.
TaskShowOrDie(t, res) ==
    /\ tpc[t] = "read_end"
    /\ LET b == NotificationBody(tloc[t], end_date, now)
       IN  last_show' = [res |-> res, msg |-> b.msg, args |-> b.args]
    /\ tloc' = [tloc EXCEPT ![t] = None]
    /\ IF res = "err"
       THEN Ended(t, "exited")
       ELSE /\ tpc' = [tpc EXCEPT ![t] = "tick"]
            /\ UNCHANGED <<aborted, next_tick, origin, woken>>
    /\ UNCHANGED <<shared, now, procv, next_task>>
    /\ UNCHANGED <<pure, invoked, owner>>

\* Under the end_date lock: guard.clone(); then the body is built and shown;
\* show() succeeds or fails, and the loop goes on either way.
TaskShow(t, res) ==
    /\ tpc[t] = "read_end"
    /\ LET b == NotificationBody(tloc[t], end_date, now)
       IN  last_show' = [res |-> res, msg |-> b.msg, args |-> b.args]
    /\ tloc' = [tloc EXCEPT ![t] = None]
    /\ tpc' = [tpc EXCEPT ![t] = "tick"]
    /\ UNCHANGED <<shared, now, procv, next_task, aborted, next_tick, origin,
                   woken>>
    /\ UNCHANGED <<pure, invoked, owner>>

\* ------------------------------------------------------------------ time
\* The runtime has nothing to run for t: it has ended, it waits for a tick
\* that is not due yet, or it is aborted and waits to be dropped.
Served(t) ==
    \/ ~Running(t)
    \/ tpc[t] = "tick" /\ now < next_tick[t]
    \/ tpc[t] \in {"new", "tick"} /\ aborted[t]

\* The clock moves on by one period. The runtime polls a task that is ready
\* long before a period (6 hours) has gone by, and a wake is far shorter than
\* a period: the clock moves only when every task has been served.
Advance ==
    /\ now < MaxPeriods * Period
    /\ \A t \in Tasks : Served(t)
    /\ now' = now + Period
    /\ UNCHANGED <<shared, procv, taskv>>
    /\ UNCHANGED <<pure, invoked, owner>>

\* ------------------------------------------- the computations on their own
\* The positive remaining times the computations are tried on: every
\* combination of few and many days, hours, minutes and seconds, on a whole
\* second and just short of the next.
Deltas ==
    { (((d * 24 + h) * 60 + m) * 60 + sec) * 1000 + ms :
          d \in 0..MaxDays, h \in {0, 1, 5, 23}, m \in {0, 3, 10, 59},
          sec \in {0, 20, 59}, ms \in {0, 999} } \ {0}

\* No command runs; a computation is handed one of the remaining times.
InitPure ==
    /\ Constructed
    /\ given_ms \in Deltas
    /\ computed = NoResult

\* calculate_time_components(given_ms) is called.
Decompose ==
    /\ computed' = [fn |-> "calculate_time_components",
                    val |-> calculate_time_components(given_ms)]
    /\ UNCHANGED <<shared, now, procv, taskv, given_ms, invoked, owner>>

\* The task formats the body for given_ms milliseconds remaining.
Compose ==
    /\ computed' = [fn |-> "body", val |-> RemainingBody(given_ms)]
    /\ UNCHANGED <<shared, now, procv, taskv, given_ms, invoked, owner>>

NextPure == Decompose \/ Compose

SpecPure == InitPure /\ [][NextPure]_vars

\* ------------------------------------------------ the calls, with a record
\* A call begins and is recorded.
Recorded(p, to, a, op) ==
    /\ Call(p, to, a)
    /\ invoked' = Append(invoked, [op |-> op, arg |-> a])

RecAutoStart == Recorded(Startup, "start_check", NoArg, "start")
RecCallStart(p) == p \in Callers /\ Recorded(p, "start_check", NoArg, "start")
RecCallStop(p) == p \in Callers /\ Recorded(p, "stop_disable", NoArg, "stop")
RecCallSetDates(p, s, e) ==
    p \in Callers /\ Recorded(p, "set_validate", <<s, e>>, "set")

\* start_notifications, stop_notifications and set_timer_dates in any overlap,
\* each call recorded as it begins. No task is polled and the clock stands
\* still while the calls run.
NextLin ==
    \/ RecAutoStart
    \/ \E p \in Callers : RecCallStart(p)
    \/ \E p \in Callers : RecCallStop(p)
    \/ \E p \in Callers : \E s \in DateStrings : \E e \in DateStrings :
           RecCallSetDates(p, s, e)
    \/ \E p \in Procs : StartCheck(p)
    \/ \E p \in Procs : StartTake(p)
    \/ \E p \in Procs : StartSpawn(p)
    \/ \E p \in Procs : StartStore(p)
    \/ \E p \in Procs : StopDisable(p)
    \/ \E p \in Procs : StopTake(p)
    \/ \E p \in Procs : SetValidate(p)
    \/ \E p \in Procs : SetWriteStart(p)
    \/ \E p \in Procs : SetWriteEnd(p)

SpecLin == Init /\ [][NextLin]_vars

\* What the calls leave behind: is_enabled, whether the handle slot is filled,
\* the two dates and the number of live tasks.
Observed ==
    [enabled |-> is_enabled, stored |-> IsSome(handle), start |-> start_date,
     end |-> end_date, live |-> Cardinality(LiveTasks)]

AtConstruction ==
    [enabled |-> TRUE, stored |-> FALSE, start |-> None, end |-> None, live |-> 0]

\* What one call leaves behind when it runs from beginning to end with no
\* other call in progress.
RunAlone(st, c) ==
    CASE c.op = "start" ->
             IF st.enabled THEN st
             ELSE [st EXCEPT !.enabled = TRUE,
                             !.stored = TRUE,
                             !.live = st.live - (IF st.stored THEN 1 ELSE 0) + 1]
      [] c.op = "stop" ->
             [st EXCEPT !.enabled = FALSE,
                        !.stored = FALSE,
                        !.live = st.live - (IF st.stored THEN 1 ELSE 0)]
      [] c.op = "set" ->
             IF ParseRfc3339(c.arg[1]).ok /\ ParseRfc3339(c.arg[2]).ok
             THEN [st EXCEPT !.start = Some(c.arg[1]), !.end = Some(c.arg[2])]
             ELSE st

\* The calls of a sequence, one after the other.
RECURSIVE RunInOrder(_, _)
RunInOrder(st, cs) ==
    IF cs = <<>> THEN st ELSE RunInOrder(RunAlone(st, Head(cs)), Tail(cs))

\* The orders n calls can run in.
Orders(n) == {f \in [1..n -> 1..n] : \A i, j \in 1..n : i # j => f[i] # f[j]}

\* ------------------------------------------------------ the specifications
\* The commands that start and stop the scheduler, the tasks and the clock.
NextSched ==
    \/ AutoStart
    \/ \E p \in Callers : CallStart(p)
    \/ \E p \in Callers : CallStop(p)
    \/ \E p \in Procs : StartCheck(p)
    \/ \E p \in Procs : StartTake(p)
    \/ \E p \in Procs : StartSpawn(p)
    \/ \E p \in Procs : StartStore(p)
    \/ \E p \in Procs : StopDisable(p)
    \/ \E p \in Procs : StopTake(p)
    \/ \E t \in Tasks : TaskInterval(t)
    \/ \E t \in Tasks : TaskTick(t)
    \/ \E t \in Tasks : TaskCancel(t)
    \/ \E t \in Tasks : TaskCheck(t)
    \/ \E t \in Tasks : TaskReadStart(t)
    \/ \E t \in Tasks : \E res \in {"ok", "err"} : TaskShow(t, res)
    \/ Advance

\* The commands that write and read the dates.
NextDateCommands ==
    \/ \E p \in Callers : \E s \in DateStrings : \E e \in DateStrings :
           CallSetDates(p, s, e)
    \/ \E p \in Callers : CallGet(p)
    \/ \E p \in Procs : SetValidate(p)
    \/ \E p \in Procs : SetWriteStart(p)
    \/ \E p \in Procs : SetWriteEnd(p)
    \/ \E p \in Procs : GetReadStart(p)
    \/ \E p \in Procs : GetReadEnd(p)

Next == NextSched \/ NextDateCommands

\* The whole program.
Spec == Init /\ [][Next]_vars

\* The scheduler alone: no command touches the dates.
SpecSched == Init /\ [][NextSched]_vars

\* What the runtime does without being asked: a command in progress goes on,
\* a task that is ready is polled.
CommandStep(p) ==
    \/ StartCheck(p) \/ StartTake(p) \/ StartSpawn(p) \/ StartStore(p)
    \/ StopDisable(p) \/ StopTake(p)
TaskStep(t) ==
    \/ TaskInterval(t) \/ TaskTick(t) \/ TaskCancel(t) \/ TaskCheck(t)
    \/ TaskReadStart(t) \/ \E res \in {"ok", "err"} : TaskShow(t, res)

\* The startup block and one caller of the UI.
Pair == {Startup, 1}

\* start_notifications and stop_notifications as the startup block and one
\* caller invoke them (so at most two calls overlap), the tasks and the clock.
NextPair ==
    \/ AutoStart
    \/ \E p \in Pair : CallStart(p)
    \/ \E p \in Pair : CallStop(p)
    \/ \E p \in Pair : StartCheck(p)
    \/ \E p \in Pair : StartTake(p)
    \/ \E p \in Pair : StartSpawn(p)
    \/ \E p \in Pair : StartStore(p)
    \/ \E p \in Pair : StopDisable(p)
    \/ \E p \in Pair : StopTake(p)
    \/ \E t \in Tasks : TaskInterval(t)
    \/ \E t \in Tasks : TaskTick(t)
    \/ \E t \in Tasks : TaskCancel(t)
    \/ \E t \in Tasks : TaskCheck(t)
    \/ \E t \in Tasks : TaskReadStart(t)
    \/ \E t \in Tasks : \E res \in {"ok", "err"} : TaskShow(t, res)
    \/ Advance

\* The same under fair scheduling: the runtime's worker threads run every
\* command to its end and poll every ready task, and time goes by. Whether a
\* command is invoked at all is up to the UI.
SpecPairFair ==
    /\ Init /\ [][NextPair]_vars
    /\ \A p \in Pair : WF_vars(CommandStep(p))
    /\ \A t \in Tasks : WF_vars(TaskStep(t))
    /\ WF_vars(Advance)

\* ------------------------------------------------ the mutexes, step by step
\* Who may hold a mutex: a command in progress or a scheduler task.
Cmd(p) == <<"cmd", p>>
Job(t) == <<"task", t>>

\* The mutex a step locks. Every guard lives in a block or a statement of its
\* own and is dropped at its end, before the next statement runs.
MutexOf(step) ==
    CASE step \in {"start_check", "stop_disable", "check"} -> Some("is_enabled")
      [] step \in {"start_take", "start_store", "stop_take"} -> Some("handle")
      [] step \in {"set_start", "get_start", "read_start"} -> Some("start_date")
      [] step \in {"set_end", "get_end", "read_end"} -> Some("end_date")
      [] OTHER -> None

Held(h) == {m \in Mutexes : owner[m] = Some(h)}

\* h, about to run `step`, has locked what the step needs and holds nothing
\* else.
Ready(h, step) ==
    Held(h) = IF IsSome(MutexOf(step)) THEN {Unwrap(MutexOf(step))} ELSE {}

\* mutex.lock(): h, holding nothing, blocks until the mutex is free and takes it.
Lock(h, step) ==
    /\ IsSome(MutexOf(step))
    /\ Held(h) = {}
    /\ owner[Unwrap(MutexOf(step))] = None
    /\ owner' = [owner EXCEPT ![Unwrap(MutexOf(step))] = Some(h)]
    /\ UNCHANGED <<shared, now, procv, taskv, pure, invoked>>

\* As Unlock, with the guard bound for the whole function: it is dropped only
\* when the command has returned or the wake is over.
UnlockAtReturn(h, step) ==
    /\ \E m \in Held(h) :
           /\ step \in {"idle", "done", "tick", "exited", "cancelled"}
           /\ owner' = [owner EXCEPT ![m] = None]
    /\ UNCHANGED <<shared, now, procv, taskv, pure, invoked>>

\* The guard goes out of scope: the step it was locked for has run.
Unlock(h, step) ==
    /\ \E m \in Held(h) :
           /\ MutexOf(step) # Some(m)
           /\ owner' = [owner EXCEPT ![m] = None]
    /\ UNCHANGED <<shared, now, procv, taskv, pure, invoked>>

\* The steps of a command of p, and of task t, with the locking spelled out.
LockedCommandStep(p) ==
    \/ Lock(Cmd(p), pc[p])
    \/ Unlock(Cmd(p), pc[p])
    \/ /\ Ready(Cmd(p), pc[p])
       /\ \/ StartCheck(p) \/ StartTake(p) \/ StartSpawn(p) \/ StartStore(p)
          \/ StopDisable(p) \/ StopTake(p)
          \/ SetValidate(p) \/ SetWriteStart(p) \/ SetWriteEnd(p)
          \/ GetReadStart(p) \/ GetReadEnd(p)

LockedTaskStep(t) ==
    \/ Lock(Job(t), tpc[t])
    \/ Unlock(Job(t), tpc[t])
    \/ /\ Ready(Job(t), tpc[t])
       /\ \/ TaskInterval(t) \/ TaskTick(t) \/ TaskCancel(t) \/ TaskCheck(t)
          \/ TaskReadStart(t) \/ \E res \in {"ok", "err"} : TaskShow(t, res)

\* A command is invoked by a process that has returned from its last one.
LockedCall(p) ==
    /\ Held(Cmd(p)) = {}
    /\ \/ p = Startup /\ AutoStart
       \/ CallStart(p)
       \/ CallStop(p)
       \/ \E s \in DateStrings : CallSetDates(p, s, s)
       \/ CallGet(p)

\* The four commands as the startup block and one caller invoke them, and the
\* tasks on their first wake (the clock stands still meanwhile), every lock()
\* and every drop of a guard a step.
NextLocks ==
    \/ \E p \in Pair : LockedCall(p)
    \/ \E p \in Pair : LockedCommandStep(p)
    \/ \E t \in Tasks : LockedTaskStep(t)

\* What the runtime does without being asked.
LockedProgress ==
    \/ \E p \in Pair : LockedCommandStep(p)
    \/ \E t \in Tasks : LockedTaskStep(t)

\* Under fair scheduling: the runtime does not idle for ever while a command
\* or a task can take a step.
SpecLocksFair ==
    /\ Init /\ [][NextLocks]_vars
    /\ WF_vars(LockedProgress)

\* The date commands alone, as the clock moves on.
NextDates == NextDateCommands \/ Advance

SpecDates == Init /\ [][NextDates]_vars

\* One command at a time: a command begins only when no other is in progress.
\* The scheduler tasks and the clock run alongside.
SeqAutoStart == Quiescent /\ AutoStart
SeqCallStart(p) == Quiescent /\ CallStart(p)
SeqCallStop(p) == Quiescent /\ CallStop(p)
SeqCallSetDates(p, s, e) == Quiescent /\ CallSetDates(p, s, e)
SeqCallGet(p) == Quiescent /\ CallGet(p)

NextSeq ==
    \/ SeqAutoStart
    \/ \E p \in Callers : SeqCallStart(p)
    \/ \E p \in Callers : SeqCallStop(p)
    \/ \E p \in Callers : \E s \in DateStrings : \E e \in DateStrings :
           SeqCallSetDates(p, s, e)
    \/ \E p \in Callers : SeqCallGet(p)
    \/ \E p \in Procs : StartCheck(p)
    \/ \E p \in Procs : StartTake(p)
    \/ \E p \in Procs : StartSpawn(p)
    \/ \E p \in Procs : StartStore(p)
    \/ \E p \in Procs : StopDisable(p)
    \/ \E p \in Procs : StopTake(p)
    \/ \E p \in Procs : SetValidate(p)
    \/ \E p \in Procs : SetWriteStart(p)
    \/ \E p \in Procs : SetWriteEnd(p)
    \/ \E p \in Procs : GetReadStart(p)
    \/ \E p \in Procs : GetReadEnd(p)
    \/ \E t \in Tasks : TaskInterval(t)
    \/ \E t \in Tasks : TaskTick(t)
    \/ \E t \in Tasks : TaskCancel(t)
    \/ \E t \in Tasks : TaskCheck(t)
    \/ \E t \in Tasks : TaskReadStart(t)
    \/ \E t \in Tasks : \E res \in {"ok", "err"} : TaskShow(t, res)
    \/ Advance

SpecSeq == Init /\ [][NextSeq]_vars

\* ================================================================ claims

\* The JoinHandle of t is in the handle slot, or still with the call that
\* spawned t and has not stored it yet.
HandleKept(t) == handle = Some(t) \/ \E p \in Procs : task[p] = t

\* C1: in every reachable state at most one scheduler task is live, and no
\* live task has lost its JoinHandle (the slot was emptied or overwritten).
C1_AtMostOneLiveTask ==
    /\ Cardinality(LiveTasks) <= 1
    /\ \A t \in LiveTasks : HandleKept(t)

\* C2: in every reachable state, between the steps of the commands too, the
\* handle slot is Some only if is_enabled is true.
C2_HandleOnlyWhileEnabled == IsSome(handle) => is_enabled

\* C3: once start_notifications has been called twice in a row, one call at a
\* time and nothing in between, exactly one scheduler task is live.
C3_TwoStartsOneLiveTask ==
    (Quiescent /\ starts_in_row = 2) => Cardinality(LiveTasks) = 1

\* C4: in every quiescent state, is_enabled = true implies that the handle
\* slot holds the handle of a live scheduler task.
C4_EnabledMeansTaskStored ==
    (Quiescent /\ is_enabled) => (IsSome(handle) /\ Live(Unwrap(handle)))

\* C5: when stop_notifications has run with no other command overlapping it,
\* then as it returns is_enabled is false, the handle slot is None and the
\* task whose handle was in the slot is no longer live (abort was requested,
\* unless it had ended already); and a task on which abort was requested
\* never completes another interval.tick(), so it shows nothing on a later wake.
C5_StopAloneStopsTheTask ==
    [][ /\ \A p \in Procs :
             (pc[p] = "stop_take" /\ pc'[p] = Home(p) /\ alone[p]) =>
                 /\ is_enabled' = FALSE
                 /\ handle' = None
                 /\ IsSome(handle) =>
                        (~Running(Unwrap(handle)) \/ aborted'[Unwrap(handle)])
        /\ \A t \in Tasks :
             aborted[t] => ~(tpc[t] \in {"new", "tick"} /\ tpc'[t] = "check")
      ]_vars

\* A stop_notifications call has just returned, no command is in progress, and
\* the task it aborted was in the middle of a wake.
C5_Witness ==
    /\ Quiescent
    /\ ~is_enabled
    /\ handle = None
    /\ \E t \in Tasks : aborted[t] /\ tpc[t] \in {"check", "read_start", "read_end"}

\* C6: a start_notifications call that finds is_enabled already true returns
\* Ok at once and changes neither is_enabled, the handle slot, the dates nor
\* any task: none is aborted and none is spawned.
C6_StartWhenEnabledIsNoOp ==
    [][ \A p \in Procs :
            (pc[p] = "start_check" /\ pc'[p] # "start_check" /\ is_enabled) =>
                /\ pc'[p] = Home(p)
                /\ last_ret'.res = "ok"
                /\ UNCHANGED <<is_enabled, handle, start_date, end_date>>
                /\ UNCHANGED <<next_task, tpc, aborted>>
      ]_vars

\* Two start_notifications calls in a row have returned: the first spawned a
\* task, the second found notifications enabled and left the task running.
C6_Witness ==
    /\ Quiescent
    /\ starts_in_row = 2
    /\ is_enabled
    /\ IsSome(handle) /\ Live(Unwrap(handle))

\* C7: the first wake of a freshly spawned task (its first completed
\* interval.tick()) comes no earlier than one full period after the
\* start_notifications call that spawned it began.
C7_FirstWakeAfterFullPeriod ==
    [][ \A t \in Tasks :
            (~woken[t] /\ woken'[t]) => now >= origin[t] + Period ]_vars

Parses(s) == ParseRfc3339(s).ok

\* C8: set_timer_dates replaces start_date and end_date as a pair: whenever a
\* step changes one of them, the two together are the arguments of one call,
\* so no state holds the new start_date next to the previous end_date.
C8_DatesReplacedAsPair ==
    [][ (start_date' # start_date \/ end_date' # end_date) =>
            \E p \in Procs :
                /\ start_date' = Some(arg[p][1])
                /\ end_date' = Some(arg[p][2]) ]_vars

\* C9: a set_timer_dates call with an argument that does not parse returns an
\* error and writes neither date: it never reaches the two writes, and the
\* step on which it returns leaves start_date and end_date as they are.
C9_BadDateChangesNothing ==
    [][ \A p \in Procs :
            /\ (/\ pc[p] = "set_validate"
                /\ pc'[p] # "set_validate"
                /\ ~(Parses(arg[p][1]) /\ Parses(arg[p][2]))) =>
                   /\ pc'[p] = Home(p)
                   /\ last_ret'.res \in {"err_start_format", "err_end_format"}
                   /\ UNCHANGED <<start_date, end_date>>
            /\ pc'[p] \in {"set_start", "set_end"} =>
                   (Parses(arg'[p][1]) /\ Parses(arg'[p][2]))
      ]_vars

\* Dates are stored, and the call that returned last was refused for its
\* end date.
C9_Witness ==
    /\ IsSome(start_date)
    /\ IsSome(end_date)
    /\ last_ret.res = "err_end_format"

\* C10: the outcome of get_time_remaining is decided by the end date alone,
\* whatever set_timer_dates does meanwhile: when the call reads end_date and
\* returns, it fails as not configured exactly when end_date is None, as an
\* invalid date exactly when end_date is Some but does not parse, and returns
\* a record otherwise.
C10_OutcomeByEndDateAlone ==
    [][ \A p \in Procs :
            (pc[p] = "get_end" /\ pc'[p] = Home(p)) =>
                /\ (last_ret'.res = "err_not_set") <=> (end_date = None)
                /\ (last_ret'.res = "err_invalid_end") <=>
                       (IsSome(end_date) /\ ~Parses(Unwrap(end_date)))
                /\ (last_ret'.res = "ok") <=>
                       (IsSome(end_date) /\ Parses(Unwrap(end_date)))
      ]_vars

\* The part of C11 that holds for every input: the components are in range
\* and add up to the whole seconds in given_ms (the q with
\* q*1000 <= given_ms < (q+1)*1000).
ComponentsExact ==
    LET days == computed.val[1]
        hours == computed.val[2]
        minutes == computed.val[3]
        seconds == computed.val[4]
        whole == ((days * 24 + hours) * 60 + minutes) * 60 + seconds
    IN  /\ given_ms > 0
        /\ days >= 0
        /\ 0 <= hours /\ hours < 24
        /\ 0 <= minutes /\ minutes < 60
        /\ 0 <= seconds /\ seconds < 60
        /\ whole * 1000 <= given_ms /\ given_ms < (whole + 1) * 1000

\* C11, as claimed: for every positive number D of milliseconds,
\* calculate_time_components(D) returns (days, hours, minutes, seconds) with
\* days >= 0, 0 <= hours < 24, 0 <= minutes < 60, 0 <= seconds < 60 and
\* ((days*24+hours)*60+minutes)*60+seconds = floor(D/1000); and D = 90,000,000
\* gives (1, 1, 3, 20).
C11_Original ==
    computed.fn = "calculate_time_components" =>
        /\ ComponentsExact
        /\ given_ms = 90000000 => computed.val = <<1, 1, 3, 20>>

\* C11, amended: the same for every positive D, with the example at
\* D = 90,200,000 (25 h 3 min 20 s), which gives (1, 1, 3, 20); 90,000,000 ms
\* is 25 hours to the second and gives (1, 1, 0, 0).
C11_ComponentsExactAndInRange ==
    computed.fn = "calculate_time_components" =>
        /\ ComponentsExact
        /\ given_ms = 90200000 => computed.val = <<1, 1, 3, 20>>
        /\ given_ms = 90000000 => computed.val = <<1, 1, 0, 0>>

\* 90,200,000 ms has been decomposed.
C11_Witness ==
    /\ computed.fn = "calculate_time_components"
    /\ given_ms = 90200000
    /\ computed.val = <<1, 1, 3, 20>>

\* C12: when get_time_remaining has read both dates as set and the end time
\* is not after now (now is the end time exactly, or past it), it returns
\* exactly {days 0, hours 0, minutes 0, seconds 0, total_ms 0, is_expired
\* true}; and in every record it returns, is_expired is true exactly when
\* total_ms = 0 and false exactly when total_ms > 0.
C12_ExpiredAtOrPastEnd ==
    [][ \A p \in Procs :
            (pc[p] = "get_end" /\ pc'[p] = Home(p)) =>
                /\ (/\ IsSome(loc[p])
                    /\ IsSome(end_date)
                    /\ Parses(Unwrap(end_date))
                    /\ ParseRfc3339(Unwrap(end_date)).utc_ms <= now * MsPerHour) =>
                       last_ret' = [res |-> "ok",
                                    val |-> [days |-> 0, hours |-> 0, minutes |-> 0,
                                             seconds |-> 0, total_ms |-> 0,
                                             is_expired |-> TRUE]]
                /\ last_ret'.res = "ok" =>
                       /\ last_ret'.val.is_expired <=> (last_ret'.val.total_ms = 0)
                       /\ ~last_ret'.val.is_expired <=> (last_ret'.val.total_ms > 0)
      ]_vars

\* get_time_remaining has returned the expired record at the very hour of the
\* end date.
C12_Witness ==
    /\ last_ret.res = "ok"
    /\ last_ret.val.is_expired
    /\ IsSome(end_date)
    /\ Parses(Unwrap(end_date))
    /\ ParseRfc3339(Unwrap(end_date)).utc_ms = now * MsPerHour

\* C13: for a time that has not run out, the notification body prints only
\* the two largest units: days and hours when days > 0 (no minutes), hours
\* and minutes when days = 0 and hours > 0, minutes alone otherwise; seconds
\* are never printed.
C13_BodyPrintsTwoLargestUnits ==
    computed.fn = "body" =>
        LET c == calculate_time_components(given_ms)
            days == c[1]
            hours == c[2]
            minutes == c[3]
        IN  computed.val.args =
                IF days > 0 THEN <<days, hours>>
                ELSE IF hours > 0 THEN <<hours, minutes>>
                ELSE <<minutes>>

\* C14: the calls of start_notifications, stop_notifications and
\* set_timer_dates are linearizable: once every call has returned,
\* is_enabled, the handle slot (filled or not), the two dates and the number
\* of live tasks are what the same calls leave behind when they run one at a
\* time in some order.
C14_Linearizable ==
    Quiescent =>
        \E f \in Orders(Len(invoked)) :
            Observed = RunInOrder(AtConstruction,
                                  [i \in 1..Len(invoked) |-> invoked[f[i]]])

\* C15: on each wake the task reads is_enabled before anything else: the
\* step after a completed interval.tick() is the check, which reads the flag
\* and nothing more. A wake that finds is_enabled false shows no notification
\* and ends the task; a task that has ended this way stays ended, whatever
\* is_enabled becomes, so it never wakes or shows a notification again.
C15_DisabledWakeEndsTheTask ==
    [][ \A t \in Tasks :
            /\ (tpc[t] = "tick" /\ tpc'[t] # "tick") =>
                    tpc'[t] \in {"check", "cancelled"}
            /\ (tpc[t] = "check" /\ tpc'[t] # "check") =>
                    /\ tpc'[t] = IF is_enabled THEN "read_start" ELSE "exited"
                    /\ last_show' = last_show
            /\ tpc[t] = "exited" =>
                    /\ tpc'[t] = "exited"
                    /\ ~woken'[t]
      ]_vars

\* A task found is_enabled false on a wake and ended; notifications have
\* been enabled again since, and another task has woken.
C15_Witness ==
    /\ is_enabled
    /\ \E t \in Tasks : tpc[t] = "exited"
    /\ \E u \in Tasks : woken[u]

AtRest ==
    /\ Quiescent
    /\ \A t \in Tasks : tpc[t] \notin {"check", "read_start", "read_end"}
    /\ \A m \in Mutexes : owner[m] = None

\* C17: no command and no task holds two mutexes at once, and
\* start_notifications holds none when it spawns the task; so, with lock()
\* blocking while another holds the mutex, nothing waits for ever: under fair
\* scheduling every command that was invoked returns and every wake of a
\* task ends (at the next tick().await or with the task), so that again and
\* again nothing is in progress and every mutex is free.
C17_NoDeadlockEveryCallReturns ==
    /\ [](\A p \in Procs : Cardinality(Held(Cmd(p))) <= 1)
    /\ [](\A t \in Tasks : Cardinality(Held(Job(t))) <= 1)
    /\ [][ \A p \in Procs :
               (pc[p] = "start_spawn" /\ pc'[p] # "start_spawn") =>
                   Held(Cmd(p)) = {} ]_vars
    /\ []<>AtRest

\* stop_notifications is about to lock is_enabled while a task, on its wake,
\* holds it.
C17_Witness ==
    \E p \in Procs : \E t \in Tasks :
        /\ pc[p] = "stop_disable"
        /\ owner["is_enabled"] = Some(Job(t))

\* C18: a show() that fails neither ends the task nor is tried again: the
\* step that shows the notification, whether show() succeeds or fails, takes
\* the task back to interval.tick().await with its next tick still ahead and
\* its schedule untouched; a notification is shown only by that step, once
\* on a wake; and from tick().await the task goes on only when the tick is
\* due (or it is dropped), so the next attempt comes at the next wake.
C18_FailedShowIsSwallowed ==
    [][ /\ \A t \in Tasks :
             /\ (tpc[t] = "read_end" /\ tpc'[t] # "read_end") =>
                    /\ tpc'[t] = "tick"
                    /\ next_tick'[t] = next_tick[t]
                    /\ now < next_tick'[t]
             /\ (tpc[t] = "tick" /\ tpc'[t] # "tick") =>
                    \/ tpc'[t] = "check" /\ now >= next_tick[t]
                    \/ tpc'[t] = "cancelled"
             /\ (tpc[t] = "check" /\ tpc'[t] # "check") =>
                    tpc'[t] \in {"read_start", "exited"}
             /\ (tpc[t] = "read_start" /\ tpc'[t] # "read_start") =>
                    tpc'[t] = "read_end"
        /\ last_show' # last_show =>
               \E t \in Tasks : tpc[t] = "read_end" /\ tpc'[t] = "tick"
      ]_vars

\* A show() has failed, and the task that tried it is live and waits for its
\* next tick, a period after the last.
C18_Witness ==
    /\ last_show.res = "err"
    /\ \E t \in Tasks :
           /\ Live(t)
           /\ tpc[t] = "tick"
           /\ woken[t]
           /\ next_tick[t] = now + Period

\* C19: in every reachable state end_date is Some only if start_date is
\* Some, and every stored date parses as a timestamp; so get_time_remaining
\* never returns its invalid-end-date error, and the task never shows the
\* message it keeps for an end date that does not parse.
C19_StoredDatesAreValid ==
    /\ IsSome(end_date) => IsSome(start_date)
    /\ IsSome(start_date) => Parses(Unwrap(start_date))
    /\ IsSome(end_date) => Parses(Unwrap(end_date))
    /\ last_ret.res # "err_invalid_end"
    /\ last_show.msg # "check_progress"

\* Dates are stored, get_time_remaining has returned a record and a task has
\* shown the time that remains.
C19_Witness ==
    /\ IsSome(start_date)
    /\ IsSome(end_date)
    /\ last_ret.res = "ok"
    /\ last_ret.val # NoValue
    /\ last_show.msg \in {"times_up", "days_hours_minutes", "hours_minutes", "minutes"}
====
